---- MODULE Spec2Model ----
(***************************************************************************)
(* Model of the physiotherapy clinic data generator                        *)
(* (src/src/data_generator.py) writing into the SQLite store declared in   *)
(* src/src/database.py.                                                    *)
(*                                                                         *)
(* Time is counted in minutes since 00:00 of a Monday (day 0), so that     *)
(* Weekday(t) is Python's datetime.weekday(): 0 = Monday .. 6 = Sunday.    *)
(* Money is counted in cents.  A table is the sequence of its rows; the    *)
(* code never deletes a row, so the AUTOINCREMENT key of a row is its      *)
(* position in the sequence.  Free-text columns produced by Faker (names,  *)
(* phone, address, e-mail, notes text) carry no logic and are left out of  *)
(* the rows; the presence of the optional notes column is kept.            *)
(***************************************************************************)
EXTENDS Integers, Sequences, FiniteSets, TLC

VARIABLES
    clock,            \* what datetime.now() returns
    startDate,        \* self.CLINIC_START_DATE
    db,               \* the committed content of the store, one field per table
    work,             \* the store as seen through self.conn (with uncommitted rows)
    pc,               \* position of the control flow
    error,            \* the exception that ended the run, "none" if none
    patients,         \* local batches of generate_all_data
    therapists,
    appointments,
    cancellations,
    reception_tasks,
    patient_ids,      \* key lists reloaded from the store
    therapist_ids,
    treatment_ids,
    appointment_ids,
    num_appointments, \* argument of generate_appointments
    pending,          \* rows insert_data_to_database has still to insert
    ret,              \* where control returns after insert_data_to_database
    callStart,        \* history: db when insert_data_to_database was entered
    runStart,         \* history: db when the run was started
    runs              \* number of runs started so far

vars == <<clock, startDate, db, work, pc, error, patients, therapists, appointments,
          cancellations, reception_tasks, patient_ids, therapist_ids, treatment_ids,
          appointment_ids, num_appointments, pending, ret, callStart, runStart, runs>>

----------------------------------------------------------------------------
\* Bounds of the model (the code's batch sizes are scaled down).

\* generate_patients(500)
NumPatients == 1
\* generate_therapists(6)
NumTherapists == 1
\* generate_appointments(..., 3000) as called by generate_all_data
RunAppointments == 1
\* for _ in range(200) of generate_reception_tasks
NumTasks == 1
\* largest num_therapists handed to generate_therapists on its own
MaxTherapists == 7
\* number of generation runs against the same store
MaxRuns == 2
\* largest num_appointments handed to generate_appointments on its own
MaxBatch == 3
\* minutes the clock may advance while a batch is generated
MaxTicks == 1

----------------------------------------------------------------------------
\* Program constants.

\* absent value: Python None, SQL NULL
NULL == -1
Day == 24 * 60
Hour == 60
\* CLINIC_START_DATE = now - 180 days
WindowDays == 180
\* refund_amount = 25.0 if refund_issued
RefundCents == 2500
\* if hours_before >= 24
RefundThresholdHours == 24

Weekday(t) == (t \div Day) % 7

DateOf(t) == t \div Day

Range(s) == {s[i] : i \in 1..Len(s)}

\* random.choice(seq): any element; raises IndexError on an empty sequence
Choice(s) == Range(s)

\* _weighted_choice(choices): any key of the dictionary (all weights are > 0)
WeightedChoice(keys) == keys

\* insert_sample_treatments: (duration_minutes, base_price in cents)
SampleTreatments ==
    << [duration |-> 60, price |-> 8500],
       [duration |-> 45, price |-> 7500],
       [duration |-> 45, price |-> 6500],
       [duration |-> 30, price |-> 5500],
       [duration |-> 30, price |-> 4500],
       [duration |-> 30, price |-> 7000],
       [duration |-> 45, price |-> 6500],
       [duration |-> 30, price |-> 5000],
       [duration |-> 45, price |-> 8000],
       [duration |-> 30, price |-> 6000] >>

\* faulty variant of SelectIds: positions counted from 0 instead of the rowids
SelectIds_ZeroBased(table) == [i \in 1..Len(table) |-> i - 1]

\* SELECT <key> FROM <table>: the keys of all rows, in rowid order
SelectIds(table) == [i \in 1..Len(table) |-> i]

EmptyStore(catalog) ==
    [patients |-> <<>>, therapists |-> <<>>, treatments |-> catalog,
     appointments |-> <<>>, cancellations |-> <<>>, reception_tasks |-> <<>>]

----------------------------------------------------------------------------
\* Tables of the generator.

\* PATIENT_AGE_WEIGHTS: the (low, high) brackets
AgeBrackets == {<<25, 35>>, <<35, 50>>, <<50, 65>>, <<65, 80>>, <<80, 90>>}

InsuranceTypes == {"Public", "Private", "Self-pay"}

\* faulty variant of StatusWeights: the placeholder status is drawn too
StatusWeights_WithInProgress ==
    {"Completed", "Cancelled", "No-show", "Scheduled", "In-progress"}

\* status_weights: the statuses drawn for an appointment that is not in the future
StatusWeights == {"Completed", "Cancelled", "No-show", "Scheduled"}

BookingMethods == {"Phone", "Online", "Walk-in", "Referral"}

\* hours_before_weights: the bucket ceilings
HoursBeforeBuckets == {1, 4, 24, 48, 168}

\* CANCELLATION_REASONS
CancellationReasons == {"Personal", "Medical", "Work", "Transportation", "Weather", "Other"}

CancelledBy == {"Patient", "Clinic", "Therapist"}

\* _get_business_hours_datetime: the hour pools
PeakHours == (9..11) \cup (14..15)

RegularHours == (8..8) \cup (12..13) \cup (16..16)

MinuteGrid == {0, 15, 30, 45}

TaskTypes == {"Appointment Confirmation", "Insurance Verification", "Payment Processing",
              "Patient Check-in", "Reminder Call", "Follow-up"}

\* task types that always reference an appointment and no patient
AppointmentTaskTypes == {"Appointment Confirmation", "Patient Check-in"}

----------------------------------------------------------------------------
\* The random draws are inputs.  A draw profile restricts each draw of the
\* code to a subset of the values the code can draw, so that a
\* specification explores the draws its claims are about in full and the
\* others on representative values.

\* draws of a whole run: every outcome and every key, one value per timing draw
RunDraws ==
    [ages |-> {25}, genders |-> {"M"}, insurance |-> {"Public"}, regDays |-> {30},
     patientNotes |-> {FALSE},
     licenses |-> {10000, 10001, 10002}, hireDays |-> {365},
     treatments |-> {1},
     days |-> {177}, shift |-> {TRUE}, peak |-> {TRUE}, hours |-> {10}, minutes |-> {15},
     leads |-> {1}, insured |-> {FALSE}, copayPct |-> {10},
     status |-> StatusWeights, methods |-> {"Phone"}, notes |-> {FALSE},
     reminder |-> {FALSE},
     checkIn |-> {5}, startDelay |-> {0}, endJitter |-> {-5},
     buckets |-> {24}, hoursBefore |-> {24}, reasons |-> {"Personal"}, details |-> {1},
     refundCoin |-> {TRUE}, cancelledBy |-> {"Patient"}, rescheduled |-> {FALSE},
     taskTypes |-> {"Patient Check-in", "Follow-up"}, withAppointment |-> BOOLEAN,
     taskDays |-> {2}, taskStatusOld |-> {"Completed", "Cancelled"},
     taskStatusNew |-> {"Pending"}, completedHours |-> {1}, actualJitter |-> {0},
     assigned |-> {"Sarah"}, taskNotes |-> {FALSE},
     ticks |-> {0}]

----------------------------------------------------------------------------
\* The store: constraints of the schema that an INSERT can violate.

\* CHECK constraints of create_tables (a NULL passes a CHECK)
CheckOk(table, row) ==
    CASE table = "patients" ->
            /\ row.gender \in {"M", "F", "Other"}
            /\ row.insurance_type \in {"Public", "Private", "Self-pay"}
      [] table = "appointments" ->
            /\ row.status \in {"Scheduled", "Completed", "Cancelled", "No-show", "In-progress"}
            /\ row.booking_method \in {"Online", "Phone", "Walk-in", "Referral"}
      [] table = "cancellations" ->
            /\ row.cancelled_by \in {"Patient", "Clinic", "Therapist", "System"}
            /\ row.reason_category \in
                   {"Personal", "Medical", "Transportation", "Work", "Weather", "Other"}
      [] table = "reception_tasks" ->
            /\ row.task_type \in TaskTypes
            /\ row.priority \in 1..5
            /\ row.status \in {"Pending", "In Progress", "Completed", "Cancelled"}
      [] OTHER -> TRUE

\* license_number TEXT UNIQUE NOT NULL
UniqueOk(store, table, row) ==
    table = "therapists" =>
        \A i \in 1..Len(store.therapists) :
            store.therapists[i].license_number # row.license_number

\* whether cursor.execute(INSERT ...) of the row succeeds (foreign keys are
\* declared but not enforced: the connection never sets PRAGMA foreign_keys)
InsertOk(store, table, row) == CheckOk(table, row) /\ UniqueOk(store, table, row)

\* faulty variant of Inserted: the row is written to the treatments table
Inserted_IntoCatalog(store, table, row) == [store EXCEPT !.treatments = Append(@, row)]

\* the store after a successful INSERT: the row gets the next rowid
Inserted(store, table, row) == [store EXCEPT ![table] = Append(@, row)]

\* faulty variant of RolledBack: the handler re-raises without rolling back
RolledBack_Missing(committed, working) == working

\* self.conn.rollback(): the connection's view returns to the committed content
RolledBack(committed, working) == committed

\* self.conn.commit(): the connection's view becomes the committed content
Committed(committed, working) == working

----------------------------------------------------------------------------
\* generate_patients and generate_therapists.

\* _generate_realistic_age: a bracket, then randint(low, high)
RealisticAges == UNION {br[1]..br[2] : br \in WeightedChoice(AgeBrackets)}

\* birth_date = datetime.now().date() - timedelta(days=age * 365)
BirthDate(today, age) == today - age * 365

MakePatient(today, age, gender, insurance, regDaysAgo, note) ==
    [date_of_birth |-> BirthDate(today, age), gender |-> gender,
     insurance_type |-> insurance, registration_date |-> today - regDaysAgo,
     notes |-> note]

\* faulty variant of StaffingPattern: the first five therapists are full-time
StaffingPattern_FiveFullTime(i) ==
    IF i <= 4
    THEN [working_days |-> "Mon,Tue,Wed,Thu,Fri", start_time |-> 8 * Hour,
          end_time |-> 17 * Hour, max_patients_per_day |-> 12]
    ELSE [working_days |-> "Tue,Thu,Fri", start_time |-> 13 * Hour,
          end_time |-> 18 * Hour, max_patients_per_day |-> 6]

\* the staffing pattern of the therapist with (0-based) index i
StaffingPattern(i) ==
    IF i < 4
    THEN [working_days |-> "Mon,Tue,Wed,Thu,Fri", start_time |-> 8 * Hour,
          end_time |-> 17 * Hour, max_patients_per_day |-> 12]
    ELSE IF i = 4
    THEN [working_days |-> "Mon,Wed,Fri", start_time |-> 8 * Hour,
          end_time |-> 13 * Hour, max_patients_per_day |-> 6]
    ELSE [working_days |-> "Tue,Thu,Fri", start_time |-> 13 * Hour,
          end_time |-> 18 * Hour, max_patients_per_day |-> 6]

MakeTherapist(i, today, license, hireDaysAgo) ==
    StaffingPattern(i) @@
    [specialization |-> i % 6, license_number |-> license,
     hire_date |-> today - hireDaysAgo, is_active |-> 1]

----------------------------------------------------------------------------
\* generate_appointments: the computations of one loop iteration.

\* the values datetime.now() may return when the clock shows c: the clock
\* advances by a drawn number of minutes, at most MaxTicks in a run
ClockReads(c, D) ==
    {c + k : k \in {j \in D.ticks : c + j <= startDate + WindowDays * Day + MaxTicks}}

\* for appointment_id in range(1, num_appointments + 1)
NextAppointmentId(batch) == Len(batch) + 1

\* faulty variant of AppointmentDate: a weekend date is moved one day on
AppointmentDate_OneDay(start, d, shift) ==
    LET date == start + d * Day
    IN  IF Weekday(date) >= 5 /\ shift THEN date + Day ELSE date

\* CLINIC_START_DATE + days_from_start, moved two days on when it is a
\* weekend and random.random() < 0.9 (shift)
AppointmentDate(start, d, shift) ==
    LET date == start + d * Day
    IN  IF Weekday(date) >= 5 /\ shift THEN date + 2 * Day ELSE date

HourPool(peak) == IF peak THEN PeakHours ELSE RegularHours

\* faulty variant of BusinessHoursDatetime: the time is added to the date passed
BusinessHoursDatetime_AddsTime(date, hour, minute) == date + hour * Hour + minute

\* date.replace(hour=hour, minute=minute, second=0, microsecond=0)
BusinessHoursDatetime(date, hour, minute) == DateOf(date) * Day + hour * Hour + minute

\* faulty variant of BookingDate: the lead is taken in hours
BookingDate_Hours(dt, lead) == dt - lead * Hour

\* appointment_datetime - timedelta(days=lead)
BookingDate(dt, lead) == dt - lead * Day

\* faulty variant of Copay: the share the insurer pays is charged
Copay_Complement(base, pct) == base - (base * pct + 50) \div 100

\* round(base_price * random.uniform(0.1, 0.3), 2), the factor drawn in whole percents
Copay(base, pct) == (base * pct + 50) \div 100

\* faulty variant of IsFuture: the dates are compared, not the date and time
IsFuture_DateOnly(dt, now) == DateOf(dt) > DateOf(now)

\* if appointment_datetime > datetime.now()
IsFuture(dt, now) == dt > now

\* the status of an appointment at dt, classified when the clock shows now
AppointmentStatus(dt, now, drawn) == IF IsFuture(dt, now) THEN "Scheduled" ELSE drawn

MakeAppointment(id, pid, tid, trid, info, dt, lead, insured, pct, status, method, note,
                reminder) ==
    [appointment_id |-> id, patient_id |-> pid, therapist_id |-> tid, treatment_id |-> trid,
     appointment_date |-> DateOf(dt), appointment_time |-> dt % Day,
     duration_minutes |-> info.duration, status |-> status,
     booking_date |-> BookingDate(dt, lead), booking_method |-> method,
     price |-> IF insured THEN Copay(info.price, pct) ELSE info.price,
     insurance_covered |-> insured,
     copay_amount |-> IF insured THEN Copay(info.price, pct) ELSE 0,
     notes |-> note, reminder_sent |-> reminder]

\* faulty variant of TreatmentTimes: the treatment duration is left out of the end
TreatmentTimes_NoDuration(dt, duration, checkIn, startDelay, endJitter) ==
    [check_in_time |-> dt - checkIn,
     treatment_start_time |-> dt + startDelay,
     treatment_end_time |-> dt + startDelay + endJitter]

\* the keys appointment.update(...) adds to a Completed appointment
TreatmentTimes(dt, duration, checkIn, startDelay, endJitter) ==
    [check_in_time |-> dt - checkIn,
     treatment_start_time |-> dt + startDelay,
     treatment_end_time |-> dt + startDelay + duration + endJitter]

\* if status == 'Completed': appointment.update(...)
WithTreatmentTimes(apt, dt, checkIn, startDelay, endJitter) ==
    IF apt.status = "Completed"
    THEN apt @@ TreatmentTimes(dt, apt.duration_minutes, checkIn, startDelay, endJitter)
    ELSE apt

\* faulty variant of NeedsCancellation: a No-show gets a cancellation record too
NeedsCancellation_NoShow(status) == status \in {"Cancelled", "No-show"}

\* whether the appointment gets a cancellation record
NeedsCancellation(status) == status = "Cancelled"

\* faulty variant of RefundIssued: the coin decides whatever the notice
RefundIssued_Always(hours_before, coin) == coin

\* the refund policy of _generate_cancellation (coin: random.choice([True, False]))
RefundIssued(hours_before, coin) ==
    IF hours_before >= RefundThresholdHours THEN coin ELSE FALSE

RefundAmount(hours_before, coin) ==
    IF hours_before >= RefundThresholdHours
    THEN (IF coin THEN RefundCents ELSE 0)
    ELSE 0

\* faulty variant of GenerateCancellation: the hours are added to the appointment time
GenerateCancellation_After(appointment_id, dt, hours_before, reason, detail, coin, by, resched) ==
    [appointment_id |-> appointment_id, cancelled_by |-> by,
     cancellation_date |-> dt + hours_before * Hour,
     hours_before_appointment |-> hours_before,
     reason_category |-> reason, reason_detail |-> detail,
     refund_issued |-> RefundIssued(hours_before, coin),
     refund_amount |-> RefundAmount(hours_before, coin),
     rescheduled |-> resched]

\* _generate_cancellation(appointment_id, appointment_datetime)
GenerateCancellation(appointment_id, dt, hours_before, reason, detail, coin, by, resched) ==
    [appointment_id |-> appointment_id, cancelled_by |-> by,
     cancellation_date |-> dt - hours_before * Hour,
     hours_before_appointment |-> hours_before,
     reason_category |-> reason, reason_detail |-> detail,
     refund_issued |-> RefundIssued(hours_before, coin),
     refund_amount |-> RefundAmount(hours_before, coin),
     rescheduled |-> resched]

\* the row INSERT INTO appointments writes: the key is assigned by the store,
\* apt.get(...) gives NULL for a key the dictionary lacks
Get(apt, key) == IF key \in DOMAIN apt THEN apt[key] ELSE NULL

AppointmentRow(apt) ==
    [patient_id |-> apt.patient_id, therapist_id |-> apt.therapist_id,
     treatment_id |-> apt.treatment_id, appointment_date |-> apt.appointment_date,
     appointment_time |-> apt.appointment_time, duration_minutes |-> apt.duration_minutes,
     status |-> apt.status, booking_date |-> apt.booking_date,
     booking_method |-> apt.booking_method, price |-> apt.price,
     insurance_covered |-> apt.insurance_covered, copay_amount |-> apt.copay_amount,
     notes |-> apt.notes, reminder_sent |-> apt.reminder_sent,
     check_in_time |-> Get(apt, "check_in_time"),
     treatment_start_time |-> Get(apt, "treatment_start_time"),
     treatment_end_time |-> Get(apt, "treatment_end_time")]

----------------------------------------------------------------------------
\* generate_reception_tasks: the computations of one loop iteration.

\* faulty variant of TaskPriority: the priorities are counted from 0
TaskPriority_FromZero(type) ==
    CASE type = "Patient Check-in" -> 0
      [] type = "Appointment Confirmation" -> 1
      [] type = "Insurance Verification" -> 2
      [] type = "Payment Processing" -> 1
      [] type = "Reminder Call" -> 2
      [] type = "Follow-up" -> 3
      [] OTHER -> 2

\* priority_map.get(task_type, 3)
TaskPriority(type) ==
    CASE type = "Patient Check-in" -> 1
      [] type = "Appointment Confirmation" -> 2
      [] type = "Insurance Verification" -> 3
      [] type = "Payment Processing" -> 2
      [] type = "Reminder Call" -> 3
      [] type = "Follow-up" -> 4
      [] OTHER -> 3

TaskDuration(type) ==
    CASE type = "Appointment Confirmation" -> 3
      [] type = "Insurance Verification" -> 8
      [] type = "Payment Processing" -> 5
      [] type = "Patient Check-in" -> 2
      [] type = "Reminder Call" -> 4
      [] type = "Follow-up" -> 6
      [] OTHER -> 5

\* whether the iteration calls random.choice(appointment_ids)
TaskNeedsAppointment(type, withAppointment) ==
    type \in AppointmentTaskTypes \/ withAppointment

\* faulty variant of TaskNeedsPatient: every task gets a patient reference
TaskNeedsPatient_Always(type) == type \in TaskTypes

\* whether the iteration calls random.choice(patient_ids)
TaskNeedsPatient(type) == type \notin AppointmentTaskTypes

\* faulty variant of TaskIsOld: a task created exactly one day ago counts as old
TaskIsOld_Inclusive(created, now) == created <= now - Day

\* if created_date < datetime.now() - timedelta(days=1)
TaskIsOld(created, now) == created < now - Day

\* the statuses random.choice draws from, by the age of the task
TaskStatuses(old) == IF old THEN {"Completed", "Cancelled"} ELSE {"Pending", "In Progress"}

\* faulty variant of CompletionFields: a Cancelled task gets the fields too
CompletionFields_WhenClosed(status, created, estimated, hours, jitter) ==
    IF status \in {"Completed", "Cancelled"}
    THEN [completed_date |-> created + hours * Hour,
          actual_duration_minutes |-> estimated + jitter]
    ELSE [completed_date |-> NULL, actual_duration_minutes |-> NULL]

\* completed_date and actual_duration of a task, set with its status
CompletionFields(status, created, estimated, hours, jitter) ==
    IF status = "Completed"
    THEN [completed_date |-> created + hours * Hour,
          actual_duration_minutes |-> estimated + jitter]
    ELSE [completed_date |-> NULL, actual_duration_minutes |-> NULL]

MakeTask(type, pid, aid, created, status, hours, jitter, assigned, note) ==
    [task_type |-> type, patient_id |-> pid, appointment_id |-> aid,
     priority |-> TaskPriority(type), status |-> status, assigned_to |-> assigned,
     estimated_duration_minutes |-> TaskDuration(type),
     actual_duration_minutes |->
         CompletionFields(status, created, TaskDuration(type), hours, jitter)
             .actual_duration_minutes,
     due_date |-> created + 24 * Hour,
     completed_date |->
         CompletionFields(status, created, TaskDuration(type), hours, jitter).completed_date,
     notes |-> note, created_at |-> created]

----------------------------------------------------------------------------
\* Actions of a run: main() constructs the generator and calls generate_all_data.

Locals == <<patients, therapists, appointments, cancellations, reception_tasks>>

KeyLists == <<patient_ids, therapist_ids, treatment_ids, appointment_ids>>

CallState == <<pending, ret, callStart>>

\* an uncaught exception ends the run
Raise(e) == pc' = "failed" /\ error' = e

\* ClinicDataGenerator.__init__ and the entry of generate_all_data
StartRun ==
    /\ pc = "idle"
    /\ startDate' = clock - WindowDays * Day
    /\ runStart' = db
    /\ runs' = runs + 1
    /\ pc' = "gen_patients"
    /\ UNCHANGED <<clock, db, work, error, Locals, KeyLists, num_appointments, CallState>>

\* one iteration of the loop of generate_patients
GeneratePatient(D) ==
    /\ pc = "gen_patients"
    /\ Len(patients) < NumPatients
    /\ \E age \in RealisticAges \cap D.ages, gender \in {"M", "F"} \cap D.genders,
          insurance \in WeightedChoice(InsuranceTypes) \cap D.insurance,
          regDaysAgo \in (30..180) \cap D.regDays, note \in D.patientNotes :
          patients' = Append(patients,
                             MakePatient(DateOf(clock), age, gender, insurance, regDaysAgo,
                                         note))
    /\ pc' = IF Len(patients') = NumPatients THEN "gen_therapists" ELSE "gen_patients"
    /\ UNCHANGED <<clock, startDate, db, work, error, therapists, appointments,
                   cancellations, reception_tasks, KeyLists, num_appointments, CallState,
                   runStart, runs>>

\* one iteration of the loop of generate_therapists(n) and, after the last
\* one, its return. The loop body does not read n, so a batch that ends at
\* length n is the batch of the call with num_therapists = n.
GenerateTherapistOf(n, D) ==
    /\ pc = "gen_therapists"
    /\ Len(therapists) < n
    /\ \E license \in (10000..99999) \cap D.licenses,
          hireDaysAgo \in (365..1800) \cap D.hireDays :
          therapists' = Append(therapists,
                               MakeTherapist(Len(therapists), DateOf(clock), license,
                                             hireDaysAgo))
    /\ pc' = IF Len(therapists') = n THEN "call_insert_profiles" ELSE "gen_therapists"
    /\ UNCHANGED <<clock, startDate, db, work, error, patients, appointments,
                   cancellations, reception_tasks, KeyLists, num_appointments, CallState,
                   runStart, runs>>

\* one iteration of the loop of generate_therapists
GenerateTherapist(D) ==
    /\ pc = "gen_therapists"
    /\ Len(therapists) < NumTherapists
    /\ \E license \in (10000..99999) \cap D.licenses,
          hireDaysAgo \in (365..1800) \cap D.hireDays :
          therapists' = Append(therapists,
                               MakeTherapist(Len(therapists), DateOf(clock), license,
                                             hireDaysAgo))
    /\ pc' = IF Len(therapists') = NumTherapists THEN "call_insert_profiles"
             ELSE "gen_therapists"
    /\ UNCHANGED <<clock, startDate, db, work, error, patients, appointments,
                   cancellations, reception_tasks, KeyLists, num_appointments, CallState,
                   runStart, runs>>

\* the rows of the five batches in the order insert_data_to_database inserts them
Tagged(table, rows) == [i \in 1..Len(rows) |-> [table |-> table, row |-> rows[i]]]

InsertQueue(ps, ts, as, cs, rs) ==
    Tagged("patients", ps) \o Tagged("therapists", ts)
    \o Tagged("appointments", [i \in 1..Len(as) |-> AppointmentRow(as[i])])
    \o Tagged("cancellations", cs) \o Tagged("reception_tasks", rs)

\* self.insert_data_to_database(patients, therapists, [], [], [])
InsertProfiles ==
    /\ pc = "call_insert_profiles"
    /\ pending' = InsertQueue(patients, therapists, <<>>, <<>>, <<>>)
    /\ ret' = "reload"
    /\ callStart' = db
    /\ pc' = "insert"
    /\ UNCHANGED <<clock, startDate, db, work, error, Locals, KeyLists, num_appointments,
                   runStart, runs>>

\* insert_data_to_database: a cursor.execute(INSERT ...) that succeeds
InsertRow ==
    /\ pc = "insert"
    /\ pending # <<>>
    /\ InsertOk(work, Head(pending).table, Head(pending).row)
    /\ work' = Inserted(work, Head(pending).table, Head(pending).row)
    /\ pending' = Tail(pending)
    /\ UNCHANGED <<clock, startDate, db, pc, error, Locals, KeyLists, num_appointments,
                   ret, callStart, runStart, runs>>

\* insert_data_to_database: a cursor.execute(INSERT ...) that raises; the
\* handler rolls back and re-raises
InsertFails ==
    /\ pc = "insert"
    /\ pending # <<>>
    /\ ~InsertOk(work, Head(pending).table, Head(pending).row)
    /\ work' = RolledBack(db, work)
    /\ Raise("IntegrityError")
    /\ UNCHANGED <<clock, startDate, db, Locals, KeyLists, num_appointments, CallState,
                   runStart, runs>>

\* insert_data_to_database: self.conn.commit() after the last INSERT
Commit ==
    /\ pc = "insert"
    /\ pending = <<>>
    /\ db' = Committed(db, work)
    /\ pc' = ret
    /\ UNCHANGED <<clock, startDate, work, error, Locals, KeyLists, num_appointments,
                   CallState, runStart, runs>>

\* the three SELECTs of generate_all_data and the call of generate_appointments
ReloadKeys ==
    /\ pc = "reload"
    /\ patient_ids' = SelectIds(work.patients)
    /\ therapist_ids' = SelectIds(work.therapists)
    /\ treatment_ids' = SelectIds(work.treatments)
    /\ num_appointments' = RunAppointments
    /\ pc' = "gen_appts"
    /\ UNCHANGED <<clock, startDate, db, work, error, Locals, appointment_ids, CallState,
                   runStart, runs>>

\* one iteration of the loop of generate_appointments
GenerateAppointment(D) ==
    /\ pc = "gen_appts"
    /\ Len(appointments) < num_appointments
    /\ patient_ids # <<>> /\ therapist_ids # <<>> /\ treatment_ids # <<>>
    /\ \E pid \in Choice(patient_ids), tid \in Choice(therapist_ids),
          trid \in Choice(treatment_ids) \cap D.treatments,
          d \in (0..179) \cap D.days, shift \in D.shift, peak \in D.peak,
          minute \in MinuteGrid \cap D.minutes, lead \in (1..14) \cap D.leads,
          insured \in D.insured, now \in ClockReads(clock, D) :
       \E hour \in HourPool(peak) \cap D.hours,
          pct \in (10..30) \cap D.copayPct,
          drawn \in WeightedChoice(StatusWeights) \cap D.status,
          method \in WeightedChoice(BookingMethods) \cap D.methods,
          note \in D.notes, reminder \in D.reminder :
          LET id == NextAppointmentId(appointments)
              dt == BusinessHoursDatetime(AppointmentDate(startDate, d, shift), hour, minute)
              status == AppointmentStatus(dt, now, drawn)
              apt == MakeAppointment(id, pid, tid, trid, work.treatments[trid], dt, lead,
                                     insured, pct, status, method, note, reminder)
          IN  /\ clock' = now
              /\ \E checkIn \in (5..15) \cap D.checkIn, startDelay \in (0..10) \cap D.startDelay,
                    endJitter \in (-5..15) \cap D.endJitter :
                    appointments' =
                        Append(appointments,
                               WithTreatmentTimes(apt, dt, checkIn, startDelay, endJitter))
              /\ IF NeedsCancellation(status)
                 THEN \E max \in WeightedChoice(HoursBeforeBuckets) \cap D.buckets,
                         reason \in WeightedChoice(CancellationReasons) \cap D.reasons,
                         detail \in (1..4) \cap D.details, coin \in D.refundCoin,
                         by \in WeightedChoice(CancelledBy) \cap D.cancelledBy,
                         resched \in D.rescheduled :
                         \E hours_before \in (1..max) \cap D.hoursBefore :
                            cancellations' =
                                Append(cancellations,
                                       GenerateCancellation(id, dt, hours_before, reason,
                                                            detail, coin, by, resched))
                 ELSE cancellations' = cancellations
    /\ UNCHANGED <<startDate, db, work, pc, error, patients, therapists, reception_tasks,
                   KeyLists, num_appointments, CallState, runStart, runs>>

\* faulty variant of AppointmentChoiceFails: an empty key list ends the loop
\* with an empty batch and the run goes on
AppointmentChoiceFails_Skips ==
    /\ pc = "gen_appts"
    /\ Len(appointments) < num_appointments
    /\ patient_ids = <<>> \/ therapist_ids = <<>> \/ treatment_ids = <<>>
    /\ appointment_ids' = SelectIds(work.appointments)
    /\ pc' = "gen_tasks"
    /\ UNCHANGED <<clock, startDate, db, work, error, Locals, patient_ids, therapist_ids,
                   treatment_ids, num_appointments, CallState, runStart, runs>>

\* generate_appointments: random.choice of an empty key list raises IndexError
AppointmentChoiceFails ==
    /\ pc = "gen_appts"
    /\ Len(appointments) < num_appointments
    /\ patient_ids = <<>> \/ therapist_ids = <<>> \/ treatment_ids = <<>>
    /\ Raise("IndexError")
    /\ UNCHANGED <<clock, startDate, db, work, Locals, KeyLists, num_appointments,
                   CallState, runStart, runs>>

\* generate_appointments returns; SELECT appointment_id FROM appointments
SelectAppointmentIds ==
    /\ pc = "gen_appts"
    /\ Len(appointments) = num_appointments
    /\ appointment_ids' = SelectIds(work.appointments)
    /\ pc' = "gen_tasks"
    /\ UNCHANGED <<clock, startDate, db, work, error, Locals, patient_ids, therapist_ids,
                   treatment_ids, num_appointments, CallState, runStart, runs>>


\* one iteration of the loop of generate_reception_tasks
GenerateTask(D) ==
    /\ pc = "gen_tasks"
    /\ Len(reception_tasks) < NumTasks
    /\ \E type \in Choice(<<"Appointment Confirmation", "Insurance Verification",
                            "Payment Processing", "Patient Check-in", "Reminder Call",
                            "Follow-up">>) \cap D.taskTypes,
          withAppointment \in D.withAppointment,
          days \in (1..30) \cap D.taskDays,
          now1 \in ClockReads(clock, D) :
          /\ TaskNeedsAppointment(type, withAppointment) => appointment_ids # <<>>
          /\ TaskNeedsPatient(type) => patient_ids # <<>>
          /\ \E aid \in IF TaskNeedsAppointment(type, withAppointment)
                        THEN Choice(appointment_ids) ELSE {NULL},
                pid \in IF TaskNeedsPatient(type) THEN Choice(patient_ids) ELSE {NULL},
                now2 \in ClockReads(now1, D),
                hours \in (1..48) \cap D.completedHours,
                jitter \in (-2..3) \cap D.actualJitter,
                assigned \in {"Sarah", "Mike", "Jennifer", "Auto-System"} \cap D.assigned,
                note \in D.taskNotes :
                LET created == now1 - days * Day
                IN  /\ clock' = now2
                    /\ \E status \in TaskStatuses(TaskIsOld(created, now2))
                                     \cap (D.taskStatusOld \cup D.taskStatusNew) :
                          reception_tasks' =
                              Append(reception_tasks,
                                     MakeTask(type, pid, aid, created, status, hours,
                                              jitter, assigned, note))
    /\ pc' = IF Len(reception_tasks') = NumTasks THEN "call_insert_rest" ELSE "gen_tasks"
    /\ UNCHANGED <<startDate, db, work, error, patients, therapists, appointments,
                   cancellations, KeyLists, num_appointments, CallState, runStart, runs>>

\* generate_reception_tasks: random.choice of an empty key list raises IndexError
TaskChoiceFails(D) ==
    /\ pc = "gen_tasks"
    /\ Len(reception_tasks) < NumTasks
    /\ \E type \in TaskTypes \cap D.taskTypes, withAppointment \in D.withAppointment :
          \/ TaskNeedsAppointment(type, withAppointment) /\ appointment_ids = <<>>
          \/ TaskNeedsPatient(type) /\ patient_ids = <<>>
    /\ Raise("IndexError")
    /\ UNCHANGED <<clock, startDate, db, work, Locals, KeyLists, num_appointments,
                   CallState, runStart, runs>>

\* self.insert_data_to_database([], [], appointments, cancellations, reception_tasks)
InsertRest ==
    /\ pc = "call_insert_rest"
    /\ pending' = InsertQueue(<<>>, <<>>, appointments, cancellations, reception_tasks)
    /\ ret' = "summary"
    /\ callStart' = db
    /\ pc' = "insert"
    /\ UNCHANGED <<clock, startDate, db, work, error, Locals, KeyLists, num_appointments,
                   runStart, runs>>

\* the rows of a table that satisfy a condition on the status column
WithStatus(table, status) == {i \in 1..Len(table) : table[i].status = status}

\* _print_summary_statistics: the division and the formatting that can raise
SummaryError(store) ==
    IF Len(store.appointments) = 0 THEN "ZeroDivisionError"
    ELSE IF WithStatus(store.appointments, "Completed") = {} THEN "TypeError"
    ELSE "none"

\* self._print_summary_statistics(), the last statement of generate_all_data
Summary ==
    /\ pc = "summary"
    /\ IF SummaryError(work) = "none"
       THEN pc' = "done" /\ error' = error
       ELSE Raise(SummaryError(work))
    /\ UNCHANGED <<clock, startDate, db, work, Locals, KeyLists, num_appointments,
                   CallState, runStart, runs>>

\* the process ends and main() is invoked again on the same store file; what
\* the closed connection had not committed is lost
Restart ==
    /\ pc \in {"done", "failed"}
    /\ runs < MaxRuns
    /\ pc' = "idle"
    /\ error' = "none"
    /\ work' = db
    /\ patients' = <<>> /\ therapists' = <<>> /\ appointments' = <<>>
    /\ cancellations' = <<>> /\ reception_tasks' = <<>>
    /\ patient_ids' = <<>> /\ therapist_ids' = <<>> /\ treatment_ids' = <<>>
    /\ appointment_ids' = <<>>
    /\ pending' = <<>>
    /\ UNCHANGED <<clock, startDate, db, num_appointments, ret, callStart, runStart, runs>>

----------------------------------------------------------------------------
\* Specifications.

\* a Monday, 10:14, a century after day 0
InitClock == 36540 * Day + 10 * Hour + 14

InitWith(store) ==
    /\ clock = InitClock
    /\ startDate = InitClock - WindowDays * Day
    /\ db = store /\ work = store
    /\ pc = "idle" /\ error = "none"
    /\ patients = <<>> /\ therapists = <<>> /\ appointments = <<>>
    /\ cancellations = <<>> /\ reception_tasks = <<>>
    /\ patient_ids = <<>> /\ therapist_ids = <<>> /\ treatment_ids = <<>>
    /\ appointment_ids = <<>>
    /\ num_appointments = 0
    /\ pending = <<>> /\ ret = "none"
    /\ callStart = store /\ runStart = store
    /\ runs = 0

\* the store as main() finds it at first: ClinicDatabase() has created the
\* tables, insert_sample_treatments() has filled the catalog or was not called
FreshStores == {EmptyStore(SampleTreatments), EmptyStore(<<>>)}

Init == \E store \in FreshStores : InitWith(store)

RunStep(D) ==
    \/ StartRun
    \/ GeneratePatient(D)
    \/ GenerateTherapist(D)
    \/ InsertProfiles
    \/ InsertRow
    \/ InsertFails
    \/ Commit
    \/ ReloadKeys
    \/ GenerateAppointment(D)
    \/ AppointmentChoiceFails
    \/ SelectAppointmentIds
    \/ GenerateTask(D)
    \/ TaskChoiceFails(D)
    \/ InsertRest
    \/ Summary

\* generation runs, one after the other, against the same store
Next == RunStep(RunDraws) \/ Restart

Spec == Init /\ [][Next]_vars


\* the store an aborted run leaves behind: its profiles are committed, nothing else
LeftoverStore ==
    [EmptyStore(SampleTreatments) EXCEPT
        !.patients = <<MakePatient(DateOf(InitClock), 25, "M", "Public", 30, FALSE)>>,
        !.therapists = <<MakeTherapist(0, DateOf(InitClock), 10000, 365)>>]

\* one run against a fresh store or against the store of an aborted run
InitRun == \E store \in FreshStores \cup {LeftoverStore} : InitWith(store)

NextRun == RunStep(RunDraws)

SpecRun == InitRun /\ [][NextRun]_vars

\* draws of generate_appointments in detail: every weekday, every slot of the
\* business day, the extremes of the timing draws
DetailDraws ==
    [RunDraws EXCEPT
        !.treatments = {1, 4},
        !.days = 173..179, !.shift = BOOLEAN, !.peak = BOOLEAN, !.hours = 8..16,
        !.minutes = MinuteGrid,
        !.checkIn = {5, 15}, !.startDelay = {0, 10}, !.endJitter = {-5, 15},
        !.buckets = HoursBeforeBuckets, !.hoursBefore = {1, 4, 23, 24, 25, 48, 168},
        !.refundCoin = BOOLEAN,
        !.ticks = {0, 1}]

\* generate_appointments called with the keys of the store and num_appointments = n
InitBatch(n) ==
    /\ clock = InitClock
    /\ startDate = InitClock - WindowDays * Day
    /\ db = LeftoverStore /\ work = LeftoverStore
    /\ pc = "gen_appts" /\ error = "none"
    /\ patients = <<>> /\ therapists = <<>> /\ appointments = <<>>
    /\ cancellations = <<>> /\ reception_tasks = <<>>
    /\ patient_ids = SelectIds(LeftoverStore.patients)
    /\ therapist_ids = SelectIds(LeftoverStore.therapists)
    /\ treatment_ids = SelectIds(LeftoverStore.treatments)
    /\ appointment_ids = <<>>
    /\ num_appointments = n
    /\ pending = <<>> /\ ret = "none"
    /\ callStart = LeftoverStore /\ runStart = LeftoverStore
    /\ runs = 1

\* generate_appointments returns and its batch is handed to
\* insert_data_to_database([], [], appointments, cancellations, [])
PersistBatch ==
    /\ pc = "gen_appts"
    /\ Len(appointments) = num_appointments
    /\ pending' = InsertQueue(<<>>, <<>>, appointments, cancellations, <<>>)
    /\ ret' = "returned"
    /\ callStart' = db
    /\ pc' = "insert"
    /\ UNCHANGED <<clock, startDate, db, work, error, Locals, KeyLists, num_appointments,
                   runStart, runs>>

BatchStep(D) ==
    \/ GenerateAppointment(D)
    \/ PersistBatch
    \/ InsertRow
    \/ Commit

\* one appointment, generated with the detailed draws, then persisted
InitGen == InitBatch(1)

NextGen == BatchStep(DetailDraws)

SpecGen == InitGen /\ [][NextGen]_vars

\* batches of up to MaxBatch appointments, generated with the draws of a run
InitBatches == \E n \in 1..MaxBatch : InitBatch(n)

NextBatch == BatchStep(RunDraws)

SpecBatch == InitBatches /\ [][NextBatch]_vars

\* a store whose only therapist has been deactivated (is_active = 0) by the clinic
InactiveStore == [LeftoverStore EXCEPT !.therapists[1].is_active = 0]

\* one run against a fresh store or against a store that holds an inactive therapist
InitStaff == \E store \in FreshStores \cup {InactiveStore} : InitWith(store)

NextStaff == RunStep(RunDraws)

SpecStaff == InitStaff /\ [][NextStaff]_vars

\* draws of generate_patients in detail: every age
AgeDraws == [RunDraws EXCEPT !.ages = 25..90]

\* the profiles are generated, then persisted by insert_data_to_database
NextProfiles ==
    \/ StartRun
    \/ GeneratePatient(AgeDraws)
    \/ GenerateTherapist(AgeDraws)
    \/ InsertProfiles
    \/ InsertRow
    \/ InsertFails
    \/ Commit

SpecProfiles == InitRun /\ [][NextProfiles]_vars

\* the profiles phase of a run on a fresh store with any num_therapists up to
\* MaxTherapists
InitStaffing == InitWith(EmptyStore(SampleTreatments))

NextStaffing ==
    \/ StartRun
    \/ GeneratePatient(RunDraws)
    \/ \E n \in 1..MaxTherapists : GenerateTherapistOf(n, RunDraws)
    \/ InsertProfiles
    \/ InsertRow
    \/ InsertFails
    \/ Commit

SpecStaffing == InitStaffing /\ [][NextStaffing]_vars

\* draws of the booking and pricing of an appointment in detail: every
\* treatment of the catalog, every lead time, both coverages, every co-pay percentage
PriceDraws ==
    [RunDraws EXCEPT
        !.treatments = 1..10, !.leads = 1..14, !.insured = BOOLEAN, !.copayPct = 10..30]

NextPrice == BatchStep(PriceDraws)

\* one appointment, generated with the booking and pricing draws, then persisted
SpecPrice == InitGen /\ [][NextPrice]_vars

\* the store a completed run leaves behind: its profiles, a Completed
\* appointment and a task without appointment reference
PopulatedStore ==
    LET dt == BusinessHoursDatetime(AppointmentDate(InitClock - WindowDays * Day, 177, TRUE),
                                    10, 15)
        apt == MakeAppointment(1, 1, 1, 1, SampleTreatments[1], dt, 1, FALSE, 10, "Completed",
                               "Phone", FALSE, FALSE)
    IN  [LeftoverStore EXCEPT
            !.appointments = <<AppointmentRow(WithTreatmentTimes(apt, dt, 5, 0, -5))>>,
            !.reception_tasks = <<MakeTask("Follow-up", 1, NULL, InitClock - 2 * Day,
                                           "Completed", 1, 0, "Sarah", FALSE)>>]

\* draws of generate_reception_tasks in detail: every task type, with and
\* without appointment, an age of one day, two days and thirty days, every
\* status, the extremes of the completion draws
TaskDraws ==
    [RunDraws EXCEPT
        !.taskTypes = TaskTypes, !.withAppointment = BOOLEAN,
        !.taskDays = {1, 2, 30},
        !.taskStatusOld = {"Completed", "Cancelled"},
        !.taskStatusNew = {"Pending", "In Progress"},
        !.completedHours = {1, 48}, !.actualJitter = {-2, 3},
        !.ticks = {0, 1}]

\* generate_reception_tasks called with the appointment and patient keys of the store
InitTasks ==
    /\ clock = InitClock
    /\ startDate = InitClock - WindowDays * Day
    /\ db = PopulatedStore /\ work = PopulatedStore
    /\ pc = "gen_tasks" /\ error = "none"
    /\ patients = <<>> /\ therapists = <<>> /\ appointments = <<>>
    /\ cancellations = <<>> /\ reception_tasks = <<>>
    /\ patient_ids = SelectIds(PopulatedStore.patients)
    /\ therapist_ids = SelectIds(PopulatedStore.therapists)
    /\ treatment_ids = SelectIds(PopulatedStore.treatments)
    /\ appointment_ids = SelectIds(PopulatedStore.appointments)
    /\ num_appointments = 0
    /\ pending = <<>> /\ ret = "none"
    /\ callStart = PopulatedStore /\ runStart = PopulatedStore
    /\ runs = 1

\* the tasks are generated, then persisted by insert_data_to_database
NextTasks ==
    \/ GenerateTask(TaskDraws)
    \/ InsertRest
    \/ InsertRow
    \/ Commit

SpecTasks == InitTasks /\ [][NextTasks]_vars

\* draws of the enumerated columns in full: gender, insurance type, status,
\* booking method, cancellation reason and author, task type and task status
EnumDraws ==
    [RunDraws EXCEPT
        !.genders = {"M", "F"}, !.insurance = InsuranceTypes,
        !.methods = BookingMethods,
        !.reasons = CancellationReasons, !.cancelledBy = CancelledBy,
        !.taskTypes = TaskTypes, !.withAppointment = BOOLEAN,
        !.taskDays = {1, 2},
        !.taskStatusOld = {"Completed", "Cancelled"},
        !.taskStatusNew = {"Pending", "In Progress"}]

\* a call of one of the generators: the profiles of a run, generate_appointments
\* or generate_reception_tasks with the keys of the store
InitRecords == InitRun \/ InitGen \/ InitTasks

\* the records are generated, then persisted by insert_data_to_database
NextRecords ==
    \/ StartRun
    \/ GeneratePatient(EnumDraws)
    \/ GenerateTherapist(EnumDraws)
    \/ InsertProfiles
    \/ GenerateAppointment(EnumDraws)
    \/ PersistBatch
    \/ GenerateTask(EnumDraws)
    \/ InsertRest
    \/ InsertRow
    \/ InsertFails
    \/ Commit

SpecRecords == InitRecords /\ [][NextRecords]_vars

----------------------------------------------------------------------------
\* Properties.

\* the date and time of an appointment, from its two columns
AppointmentDatetime(a) == a.appointment_date * Day + a.appointment_time

TreatmentTimeKeys == {"check_in_time", "treatment_start_time", "treatment_end_time"}

\* C1: an appointment whose date/time is later than the moment at which it is
\* generated (the clock read by the step that appends it) has status Scheduled,
\* hence is never Completed, Cancelled or No-show.
C1_FutureIsScheduled ==
    [][Len(appointments') = Len(appointments) + 1 =>
          LET a == appointments'[Len(appointments')]
          IN  AppointmentDatetime(a) > clock' => a.status = "Scheduled"]_vars

\* an appointment later today than the clock is in the batch
C1_Witness ==
    \E i \in 1..Len(appointments) :
        /\ AppointmentDatetime(appointments[i]) > clock
        /\ appointments[i].appointment_date = DateOf(clock)
        /\ appointments[i].status = "Scheduled"

\* the cancellations of the batch that carry the appointment_id id
CancellationsOf(id) == {j \in 1..Len(cancellations) : cancellations[j].appointment_id = id}

\* C2: in the batch of generate_appointments an appointment has a cancellation
\* iff its status is Cancelled, a Cancelled appointment has exactly one, no two
\* cancellations carry the same appointment_id, and every cancellation carries
\* the appointment_id of an appointment of the batch.
C2_CancellationIffCancelled ==
    /\ \A i \in 1..Len(appointments) :
          /\ appointments[i].status = "Cancelled" <=>
                 CancellationsOf(appointments[i].appointment_id) # {}
          /\ appointments[i].status = "Cancelled" =>
                 Cardinality(CancellationsOf(appointments[i].appointment_id)) = 1
    /\ \A j, k \in 1..Len(cancellations) :
          cancellations[j].appointment_id = cancellations[k].appointment_id => j = k
    /\ \A j \in 1..Len(cancellations) :
          \E i \in 1..Len(appointments) :
              appointments[i].appointment_id = cancellations[j].appointment_id

\* a returned batch with two Cancelled appointments and one that is not
C2_Witness ==
    /\ Len(appointments) = num_appointments
    /\ Len(cancellations) = 2
    /\ \E i \in 1..Len(appointments) : appointments[i].status # "Cancelled"

StoredAppointments == Range(db.appointments) \cup Range(work.appointments)

\* C4: a Completed appointment has its three treatment timestamps, in the order
\* check-in < treatment start < treatment end; an appointment with another
\* status has none of them, and its row stores NULL in the three columns.
C4_TreatmentTimesIffCompleted ==
    /\ \A i \in 1..Len(appointments) :
          LET a == appointments[i]
          IN  IF a.status = "Completed"
              THEN /\ TreatmentTimeKeys \subseteq DOMAIN a
                   /\ a.check_in_time < a.treatment_start_time
                   /\ a.treatment_start_time < a.treatment_end_time
              ELSE TreatmentTimeKeys \cap DOMAIN a = {}
    /\ \A r \in StoredAppointments :
          IF r.status = "Completed"
          THEN /\ r.check_in_time # NULL /\ r.treatment_start_time # NULL
               /\ r.treatment_end_time # NULL
               /\ r.check_in_time < r.treatment_start_time
               /\ r.treatment_start_time < r.treatment_end_time
          ELSE /\ r.check_in_time = NULL /\ r.treatment_start_time = NULL
               /\ r.treatment_end_time = NULL

\* a Completed appointment of the shortest treatment, with the shortest
\* treatment time the draws allow, is committed
C4_Witness ==
    \E i \in 1..Len(db.appointments) :
        /\ db.appointments[i].status = "Completed"
        /\ db.appointments[i].treatment_end_time - db.appointments[i].treatment_start_time
               = 30 - 5

\* C5: a cancellation carries a refund only if hours_before_appointment >= 24;
\* below 24 hours refund_issued is false and refund_amount is 0; whenever
\* refund_issued is false refund_amount is 0.
C5_RefundOnlyFromThreshold ==
    \A c \in Range(cancellations) \cup Range(work.cancellations) \cup Range(db.cancellations) :
        /\ c.refund_issued => c.hours_before_appointment >= 24
        /\ c.hours_before_appointment < 24 => (~c.refund_issued /\ c.refund_amount = 0)
        /\ ~c.refund_issued => c.refund_amount = 0

\* a cancellation exactly 24 hours ahead got its refund
C5_Witness ==
    \E j \in 1..Len(cancellations) :
        /\ cancellations[j].hours_before_appointment = 24
        /\ cancellations[j].refund_issued
        /\ cancellations[j].refund_amount = RefundCents


\* the run started on an empty store that holds the treatment catalog
StartedEmptyWithCatalog == runStart = EmptyStore(SampleTreatments)

\* the batches of the run are committed, in order, behind the rows the store held
RunPersisted ==
    /\ db.patients = runStart.patients \o patients
    /\ db.therapists = runStart.therapists \o therapists
    /\ db.appointments =
           runStart.appointments \o [i \in 1..Len(appointments) |-> AppointmentRow(appointments[i])]
    /\ db.cancellations = runStart.cancellations \o cancellations
    /\ db.reception_tasks = runStart.reception_tasks \o reception_tasks
    /\ Len(patients) = NumPatients /\ Len(therapists) = NumTherapists
    /\ Len(appointments) = RunAppointments /\ Len(reception_tasks) = NumTasks

\* C6: a run started on an empty store that holds a non-empty catalog ends
\* without aborting, with its patients, therapists, appointments, cancellations
\* and tasks persisted.
C6_RunCompletesAndPersists ==
    (StartedEmptyWithCatalog /\ pc \in {"done", "failed"}) => (pc = "done" /\ RunPersisted)

\* C7: a run that fails leaves the store with exactly the rows it held when
\* the run started.
C7_FailedRunLeavesStoreUnchanged ==
    pc = "failed" => (db = runStart /\ work = runStart)

\* C8: while insert_data_to_database inserts, nothing of the call is committed;
\* a call that stopped before its last row has raised its error and left the
\* store, committed and as the connection sees it, as it was when the call
\* began; the committed store changes only by a call that inserted every row.
C8_InsertAllOrNothing ==
    /\ pc = "insert" => db = callStart
    /\ (pc # "insert" /\ pending # <<>>) =>
          /\ pc = "failed" /\ error = "IntegrityError"
          /\ db = callStart /\ work = callStart
    /\ db # callStart => (pending = <<>> /\ db = work)

\* an INSERT failed after an earlier row of the same call had been inserted
C8_Witness ==
    /\ pc = "failed" /\ error = "IntegrityError"
    /\ Len(pending) < Len(patients) + Len(therapists)
    /\ work = callStart

\* C9: a run that aborts because a dependent entity was generated while its
\* referenced keys were missing (random.choice of an empty key list) aborts
\* before anything was written to the store.
C9_AbortBeforeAnyWrite ==
    (pc = "failed" /\ error = "IndexError") => (db = runStart /\ work = runStart)

\* C10: when an appointment is generated the patients and therapists of the
\* run are committed and the key lists are those of the store; every
\* appointment of the batch, and every appointment row written, references a
\* patient, a therapist and a treatment that the store holds.
C10_NoDanglingReference ==
    /\ appointments # <<>> =>
          /\ db.patients = runStart.patients \o patients
          /\ db.therapists = runStart.therapists \o therapists
          /\ patient_ids = [i \in 1..Len(db.patients) |-> i]
          /\ therapist_ids = [i \in 1..Len(db.therapists) |-> i]
    /\ \A i \in 1..Len(appointments) :
          /\ appointments[i].patient_id \in 1..Len(db.patients)
          /\ appointments[i].therapist_id \in 1..Len(db.therapists)
          /\ appointments[i].treatment_id \in 1..Len(db.treatments)
    /\ \A i \in 1..Len(work.appointments) :
          /\ work.appointments[i].patient_id \in 1..Len(work.patients)
          /\ work.appointments[i].therapist_id \in 1..Len(work.therapists)
          /\ work.appointments[i].treatment_id \in 1..Len(work.treatments)

\* an appointment that references a patient and a therapist of its own run is committed
C10_Witness ==
    \E i \in 1..Len(db.appointments) :
        /\ db.appointments[i].patient_id > Len(runStart.patients)
        /\ db.appointments[i].therapist_id > Len(runStart.therapists)

\* C11: a run started on a store whose treatment catalog is empty produces no
\* appointment, no cancellation and no task, persists none, never gets past
\* the generation of appointments, and when it has ended it has ended in an error.
C11_EmptyCatalogRefused ==
    runStart.treatments = <<>> =>
        /\ appointments = <<>> /\ cancellations = <<>> /\ reception_tasks = <<>>
        /\ \A store \in {db, work} :
              /\ store.appointments = runStart.appointments
              /\ store.cancellations = runStart.cancellations
              /\ store.reception_tasks = runStart.reception_tasks
        /\ pc \notin {"gen_tasks", "call_insert_rest", "summary", "done"}
        /\ pc = "failed" => error # "none"

\* the run on the empty catalog has stored its profiles and then ended in an error
C11_Witness ==
    /\ runStart.treatments = <<>>
    /\ db.patients # <<>> /\ db.therapists # <<>>
    /\ pc = "failed" /\ error = "IndexError"

\* the reception tasks of the batch and the rows of the reception_tasks table
AllTasks == Range(reception_tasks) \cup Range(work.reception_tasks) \cup Range(db.reception_tasks)

\* C12: when a task is generated, its status is Completed or Cancelled if it
\* was created more than one day before the moment its status is decided (the
\* clock read by the step), and Pending or In Progress if it was created one
\* day or less before that moment.
C12_StatusByAge ==
    [][Len(reception_tasks') = Len(reception_tasks) + 1 =>
          LET t == reception_tasks'[Len(reception_tasks')]
          IN  IF t.created_at < clock' - Day
              THEN t.status \in {"Completed", "Cancelled"}
              ELSE t.status \in {"Pending", "In Progress"}]_vars

\* a task created one day before the first clock read, one minute more than a
\* day before the second, is closed
C12_Witness ==
    \E i \in 1..Len(reception_tasks) :
        /\ reception_tasks[i].created_at = clock - Day - 1
        /\ reception_tasks[i].status \in {"Completed", "Cancelled"}

\* C13: a reception task, generated or stored, has a completed_date iff it has
\* an actual_duration_minutes iff its status is Completed, and a completed_date
\* is later than created_at.
C13_CompletionFieldsIffCompleted ==
    \A t \in AllTasks :
        /\ t.status = "Completed" <=> t.completed_date # NULL
        /\ t.status = "Completed" <=> t.actual_duration_minutes # NULL
        /\ t.status = "Completed" => t.completed_date > t.created_at

\* a Completed check-in task with the shortest completion and an actual
\* duration of 0 minutes is committed behind the task the store held
C13_Witness ==
    /\ Len(db.reception_tasks) > Len(runStart.reception_tasks)
    /\ \E t \in Range(db.reception_tasks) :
          /\ t.task_type = "Patient Check-in" /\ t.status = "Completed"
          /\ t.completed_date = t.created_at + Hour
          /\ t.actual_duration_minutes = 0

\* C14: the booking date of an appointment, generated or stored, lies a whole
\* number of days, at least 1 and at most 14, before its date and time.
C14_BookingLead ==
    \A a \in Range(appointments) \cup StoredAppointments :
        /\ a.booking_date < AppointmentDatetime(a)
        /\ \E lead \in 1..14 : AppointmentDatetime(a) - a.booking_date = lead * Day

\* the longest lead: an appointment booked exactly 14 days ahead is committed
C14_Witness ==
    \E r \in Range(db.appointments) : AppointmentDatetime(r) - r.booking_date = 14 * Day

\* C17: an appointment that is not insurance-covered has the base price of its
\* treatment as price and a copay_amount of 0; an insurance-covered one has its
\* copay_amount as price, between 10% and 30% of the base price; the price
\* never exceeds the base price.
C17_PriceAndCopay ==
    \A a \in Range(appointments) \cup StoredAppointments :
        LET base == work.treatments[a.treatment_id].price
        IN  /\ ~a.insurance_covered => (a.price = base /\ a.copay_amount = 0)
            /\ a.insurance_covered =>
                   /\ a.price = a.copay_amount
                   /\ 10 * base <= 100 * a.price /\ 100 * a.price <= 30 * base
            /\ a.price <= base

\* an insurance-covered appointment of the cheapest treatment at 30% is committed
C17_Witness ==
    \E r \in Range(db.appointments) :
        /\ r.insurance_covered /\ r.treatment_id = 5
        /\ r.price = 1350 /\ r.copay_amount = 1350

\* The civil calendar on day numbers: day 0 is Monday 1 January 1900, which
\* makes InitClock Monday 17 January 2000.
IsLeap(y) == (y % 4 = 0 /\ y % 100 # 0) \/ y % 400 = 0

\* the days from 1 January 1900 to 1 January of the year y
DaysBeforeYear(y) ==
    LET LeapsUpTo(n) == (n \div 4) - (n \div 100) + (n \div 400)
    IN  (y - 1900) * 365 + LeapsUpTo(y - 1) - LeapsUpTo(1899)

MonthLengths(y) ==
    <<31, IF IsLeap(y) THEN 29 ELSE 28, 31, 30, 31, 30, 31, 31, 30, 31, 30, 31>>

\* the days from 1 January of the year y to the first of the month m
DaysBeforeMonth(y, m) ==
    <<0, 31, 59, 90, 120, 151, 181, 212, 243, 273, 304, 334>>[m]
    + (IF IsLeap(y) /\ m > 2 THEN 1 ELSE 0)

DaysFromCivil(y, m, d) == DaysBeforeYear(y) + DaysBeforeMonth(y, m) + d - 1

YearOf(n) == CHOOSE y \in 1900..2100 : DaysBeforeYear(y) <= n /\ n < DaysBeforeYear(y + 1)

MonthOf(n) ==
    LET y == YearOf(n)
    IN  CHOOSE m \in 1..12 :
            /\ DaysFromCivil(y, m, 1) <= n
            /\ n < DaysFromCivil(y, m, 1) + MonthLengths(y)[m]

DayOfMonth(n) == n - DaysFromCivil(YearOf(n), MonthOf(n), 1) + 1

\* the date k calendar years before the date n (29 February falls back on the 28th)
YearsBefore(n, k) ==
    LET y == YearOf(n) - k
        m == MonthOf(n)
        d == IF DayOfMonth(n) > MonthLengths(y)[m] THEN MonthLengths(y)[m] ELSE DayOfMonth(n)
    IN  DaysFromCivil(y, m, d)

\* the patients of the batch and the rows the run has added to the patients table
RunPatients ==
    Range(patients)
    \cup {work.patients[i] : i \in (Len(runStart.patients) + 1)..Len(work.patients)}
    \cup {db.patients[i] : i \in (Len(runStart.patients) + 1)..Len(db.patients)}

\* C15: the birth date of a patient of the run differs by at most one day from the date
\* a whole number of calendar years, between 25 and 90, before the generation date.
C15_AgeAndBirthDate ==
    \A p \in RunPatients :
        \E age \in 25..90 :
            LET exact == YearsBefore(DateOf(clock), age)
            IN  p.date_of_birth - exact \in -1..1

\* C16: the status of an appointment, generated or stored, is Scheduled,
\* Completed, Cancelled or No-show, never In-progress.
C16_NoInProgress ==
    \A a \in Range(appointments) \cup StoredAppointments :
        /\ a.status \in {"Scheduled", "Completed", "Cancelled", "No-show"}
        /\ a.status # "In-progress"

\* an appointment in the past keeps the status drawn for it: a No-show is committed
C16_Witness ==
    \E r \in Range(db.appointments) :
        r.status = "No-show" /\ AppointmentDatetime(r) < clock

\* C18: no appointment of the batch of a run is assigned to a therapist whose
\* row in the store has the active flag off.
C18_InactiveNeverScheduled ==
    \A a \in Range(appointments) :
        /\ a.therapist_id \in 1..Len(work.therapists)
        /\ work.therapists[a.therapist_id].is_active = 1

\* C19: during and after a run, completed or failed, the treatments table,
\* committed and as the connection sees it, is the one the run started with,
\* and insert_data_to_database has no row to write to it.
C19_CatalogUnchanged ==
    /\ db.treatments = runStart.treatments
    /\ work.treatments = runStart.treatments
    /\ \A i \in 1..Len(pending) : pending[i].table # "treatments"

\* a run on a store with the catalog has completed and left new rows in every other table
C19_Witness ==
    /\ pc = "done"
    /\ runStart.treatments = SampleTreatments
    /\ Len(db.patients) > Len(runStart.patients)
    /\ Len(db.therapists) > Len(runStart.therapists)
    /\ Len(db.appointments) > Len(runStart.appointments)
    /\ Len(db.reception_tasks) > Len(runStart.reception_tasks)

\* C20: every generated record, and every row handed to an INSERT, passes the
\* CHECK constraints of its table, and an INSERT that fails does not fail on
\* a CHECK constraint.
C20_EnumeratedFieldsAllowed ==
    /\ \A p \in Range(patients) : CheckOk("patients", p)
    /\ \A a \in Range(appointments) : CheckOk("appointments", AppointmentRow(a))
    /\ \A c \in Range(cancellations) : CheckOk("cancellations", c)
    /\ \A t \in Range(reception_tasks) : CheckOk("reception_tasks", t)
    /\ \A i \in 1..Len(pending) : CheckOk(pending[i].table, pending[i].row)
    /\ error = "IntegrityError" => CheckOk(Head(pending).table, Head(pending).row)

\* a check-in task of priority 1 with the status In Progress is committed
C20_Witness ==
    \E t \in Range(db.reception_tasks) :
        /\ t.task_type = "Patient Check-in" /\ t.priority = 1
        /\ t.status = "In Progress"

\* the appointment of the batch a cancellation of the batch was generated for
CancelledAppointment(c) ==
    CHOOSE a \in Range(appointments) : a.appointment_id = c.appointment_id

\* C21: a cancellation of the batch has an hours_before_appointment between 1
\* and a bucket ceiling, hence between 1 and 168, and a cancellation_date
\* exactly that many hours before, so strictly before, the date and time of
\* its appointment.
C21_HoursBeforeAppointment ==
    \A c \in Range(cancellations) :
        LET dt == AppointmentDatetime(CancelledAppointment(c))
        IN  /\ \E ceiling \in HoursBeforeBuckets : c.hours_before_appointment \in 1..ceiling
            /\ c.hours_before_appointment \in 1..168
            /\ c.cancellation_date = dt - c.hours_before_appointment * Hour
            /\ c.cancellation_date < dt

\* a cancellation one week ahead, the largest notice, is in the batch
C21_Witness ==
    \E c \in Range(cancellations) :
        /\ c.hours_before_appointment = 168
        /\ c.cancellation_date = AppointmentDatetime(CancelledAppointment(c)) - 7 * Day

\* the draws (days_from_start, shift) that give an appointment its date
DateDraws(a) ==
    {p \in (0..179) \X BOOLEAN :
        DateOf(AppointmentDate(startDate, p[1], p[2])) = a.appointment_date}

\* C22: for every appointment of the batch and every draw that gives its date,
\* a shifted Saturday is a Monday and a shifted Sunday is a Tuesday, a date
\* sampled on a weekday is not moved, and a date on a Saturday or Sunday was
\* sampled on that weekend day and left unshifted.
C22_WeekendShift ==
    \A a \in Range(appointments) :
        \E q \in DateDraws(a) : \A p \in DateDraws(a) :
              LET sampled == startDate + p[1] * Day
                  date == AppointmentDate(startDate, p[1], p[2])
              IN  /\ (Weekday(sampled) >= 5 /\ p[2]) =>
                        /\ date = sampled + 2 * Day
                        /\ Weekday(date) = IF Weekday(sampled) = 5 THEN 0 ELSE 1
                  /\ Weekday(sampled) < 5 => date = sampled
                  /\ Weekday(date) >= 5 =>
                        Weekday(sampled) >= 5 /\ ~p[2] /\ date = sampled

\* an appointment sampled on the last Sunday of the window now falls on the
\* Tuesday after the window, a date only the shift can give
C22_Witness ==
    \E a \in Range(appointments) :
        /\ a.appointment_date = DateOf(startDate) + 181
        /\ a.appointment_date % 7 = 1
        /\ DateDraws(a) = {<<179, TRUE>>}

\* C23: the time of every appointment of the batch has an hour between 8 and
\* 16 and a minute of 0, 15, 30 or 45 with nothing below the minute, so it lies
\* between 08:00 and 16:45; placing the time leaves the calendar date the one
\* chosen before; the peak pool 9, 10, 11, 14, 15 and the regular pool 8, 12,
\* 13, 16 are disjoint and cover exactly the hours 8 to 16.
C23_BusinessHours ==
    /\ PeakHours = {9, 10, 11, 14, 15}
    /\ RegularHours = {8, 12, 13, 16}
    /\ PeakHours \cap RegularHours = {}
    /\ PeakHours \cup RegularHours = 8..16
    /\ \A a \in Range(appointments) :
          /\ a.appointment_time \div Hour \in 8..16
          /\ a.appointment_time % Hour \in MinuteGrid
          /\ a.appointment_time \in (8 * Hour)..(16 * Hour + 45)
          /\ \E p \in DateDraws(a) :
                DateOf(AppointmentDatetime(a)) = DateOf(AppointmentDate(startDate, p[1], p[2]))

\* the latest slot, 16:45, is taken on a Wednesday of the window
C23_Witness ==
    \E a \in Range(appointments) :
        /\ a.appointment_time = 16 * Hour + 45
        /\ a.appointment_date = DateOf(startDate) + 175

\* the therapists generated by the run: the batch and the rows it has inserted
RunTherapists == Range(therapists) \cup Range(work.therapists)

\* the staffing fields the pattern of a 0-based index prescribes
PatternFields(days, start, end, capacity) ==
    [working_days |-> days, start_time |-> start, end_time |-> end,
     max_patients_per_day |-> capacity]

StaffingFields(t) ==
    PatternFields(t.working_days, t.start_time, t.end_time, t.max_patients_per_day)

\* C24: the staffing pattern of a therapist depends on its index in the batch
\* only: indices 0 to 3 work Monday to Friday 08:00-17:00 with capacity 12,
\* index 4 Monday, Wednesday, Friday 08:00-13:00 with capacity 6, index 5 and
\* above Tuesday, Thursday, Friday 13:00-18:00 with capacity 6; every therapist
\* generated has a capacity above zero, a start before its end and the active
\* flag set.
C24_StaffingPattern ==
    /\ \A k \in 1..Len(therapists) :
          StaffingFields(therapists[k]) =
              IF k - 1 <= 3 THEN PatternFields("Mon,Tue,Wed,Thu,Fri", 8 * Hour, 17 * Hour, 12)
              ELSE IF k - 1 = 4 THEN PatternFields("Mon,Wed,Fri", 8 * Hour, 13 * Hour, 6)
              ELSE PatternFields("Tue,Thu,Fri", 13 * Hour, 18 * Hour, 6)
    /\ \A t \in RunTherapists :
          /\ t.max_patients_per_day > 0
          /\ t.start_time < t.end_time
          /\ t.is_active = 1

\* a batch of seven therapists: four full-time, one on mornings, two on afternoons
C24_Witness ==
    /\ Len(therapists) = 7
    /\ therapists[4].max_patients_per_day = 12
    /\ therapists[5].working_days = "Mon,Wed,Fri"
    /\ therapists[6].start_time = 13 * Hour
    /\ StaffingFields(therapists[7]) = StaffingFields(therapists[6])

\* C25: every task of the batch references an entity: an Appointment
\* Confirmation or a Patient Check-in carries an appointment reference and no
\* patient reference, a task of another type carries a patient reference and
\* may carry an appointment reference; every reference is a key of the list
\* handed to generate_reception_tasks.
C25_TaskReferences ==
    \A t \in Range(reception_tasks) :
        /\ t.appointment_id # NULL \/ t.patient_id # NULL
        /\ t.task_type \in AppointmentTaskTypes =>
              t.appointment_id \in Range(appointment_ids) /\ t.patient_id = NULL
        /\ t.task_type \notin AppointmentTaskTypes =>
              /\ t.patient_id \in Range(patient_ids)
              /\ t.appointment_id \in Range(appointment_ids) \cup {NULL}

\* a Reminder Call with both references, committed to the store
C25_Witness ==
    /\ pc = "summary"
    /\ \E t \in Range(reception_tasks) :
          /\ t.task_type = "Reminder Call"
          /\ t.patient_id \in Range(patient_ids)
          /\ t.appointment_id \in Range(appointment_ids)
          /\ t \in Range(db.reception_tasks)

StatusOption(old, k) ==
    IF old THEN <<"Completed", "Cancelled">>[k + 1] ELSE <<"Pending", "In Progress">>[k + 1]

\* the random draws of one iteration of generate_reception_tasks, for the key
\* lists of the state
TaskDrawSpace ==
    [type : TaskTypes, aid : Range(appointment_ids) \cup {NULL}, pid : Range(patient_ids),
     days : TaskDraws.taskDays, option : 0..1, hours : TaskDraws.completedHours,
     jitter : TaskDraws.actualJitter, assigned : TaskDraws.assigned,
     note : TaskDraws.taskNotes]

\* the task the iteration builds from the draws X when datetime.now() returns
\* now1 at line 451 and now2 at line 478
TaskOfDraws(X, now1, now2) ==
    LET created == now1 - X.days * Day
    IN  MakeTask(X.type,
                 IF TaskNeedsPatient(X.type) THEN X.pid ELSE NULL,
                 X.aid,
                 created, StatusOption(TaskIsOld(created, now2), X.option),
                 X.hours, X.jitter, X.assigned, X.note)

\* the pairs of times the two clock reads of an iteration may return
ClockPairs ==
    {r \in (0..MaxTicks) \X (0..MaxTicks) : r[1] <= r[2]}

ReadAt(k) == startDate + WindowDays * Day + k

\* C27: generation is a function of its random draws: whenever a task of the
\* batch is what an iteration builds from some draws, an iteration that
\* consumes the same draws with the same key lists builds the same task,
\* whatever the time at which it runs.
C27_SameDrawsSameBatch ==
    \A t \in Range(reception_tasks) :
        \A X \in TaskDrawSpace : \A r \in ClockPairs :
            t = TaskOfDraws(X, ReadAt(r[1]), ReadAt(r[2])) =>
                \A q \in ClockPairs : t = TaskOfDraws(X, ReadAt(q[1]), ReadAt(q[2]))

\* C28: a cancellation of the batch is dated at or after the booking date of
\* its appointment.
C28_CancelledAfterBooking ==
    \A c \in Range(cancellations) :
        c.cancellation_date >= CancelledAppointment(c).booking_date

\* C29: the completed_date of a Completed task of the batch is not later than
\* the time at which the task was generated.
C29_CompletedNotInFuture ==
    \A t \in Range(reception_tasks) :
        t.status = "Completed" => t.completed_date <= clock

\* C30: the license numbers of the therapists of one batch are pairwise
\* distinct, so the UNIQUE constraint on license_number never makes the
\* insert of the profiles of a run on an empty store fail.
C30_LicensesDistinct ==
    /\ \A i, j \in 1..Len(therapists) :
          i # j => therapists[i].license_number # therapists[j].license_number
    /\ error # "IntegrityError"

====
